---- MODULE Spec2Model ----
(***************************************************************************)
(* Model of the interactive clarification-and-research workflow            *)
(* (InteractiveResearchWorkflow) and of the parts of                       *)
(* InteractiveResearchManager its handlers call.                           *)
(*                                                                         *)
(* The workflow runs on one cooperative event loop: a coroutine runs       *)
(* without interruption from one await to the next, so every action below  *)
(* is one such stretch of code.  The coroutines are the driver (run), one  *)
(* task per start_research update, and the await-free update, signal and   *)
(* query handlers.                                                         *)
(***************************************************************************)
EXTENDS Integers, Sequences, FiniteSets, Bags, TLC

(***************************************************************************)
(* Bounds of the model.                                                    *)
(***************************************************************************)
MaxStarts == 1       \* start_research tasks in flight at the same time
MaxQuestions == 2    \* longest question list the triage step returns
MaxSearches == 2     \* longest search plan the planner returns

(***************************************************************************)
(* Optional values: None is the empty tuple, Some(x) the 1-tuple.          *)
(***************************************************************************)
None == <<>>
Some(x) == <<x>>
IsSome(o) == o # <<>>
Get(o) == o[1]

(***************************************************************************)
(* Input domains.                                                          *)
(***************************************************************************)
Queries == {"weather today", "best pizza in Rome"}
InitialQueries == {None, Some(""), Some("weather today")}

\* answers are strings of characters; the blank stands for whitespace.
\* The samples: empty, blank, two blanks, plain, padded on either side
Whitespace == {" "}
Answers == {<<>>, <<" ">>, <<" ", " ">>, <<"x">>, <<" ", "x", " ">>}

\* the question lists a triage answer can carry (the list may be empty)
QuestionText(i) == "Q" \o ToString(i)
QuestionLists == {[i \in 1..n |-> QuestionText(i - 1)] : n \in 0..MaxQuestions}

\* reports the writer agent can produce
Reports ==
    { [short_summary |-> "s1", markdown_report |-> "m1", follow_up_questions |-> <<"f1">>],
      [short_summary |-> "s2", markdown_report |-> "m2", follow_up_questions |-> <<>>] }

PdfPaths == {None, Some("report.pdf")}

\* key of a response: f"question_{i}"
QuestionKey(i) == "question_" \o ToString(i)

\* maps a caller can pass to provide_clarifications
BulkKeys == {QuestionKey(0), QuestionKey(MaxQuestions + 5)}
BulkValues == {<<"x">>}
BulkMaps == UNION {[K -> BulkValues] : K \in SUBSET BulkKeys}

(***************************************************************************)
(* str.strip(): drop the leading and the trailing whitespace.              *)
(***************************************************************************)
RECURSIVE LStrip(_)
LStrip(s) ==
    IF s # <<>> /\ Head(s) \in Whitespace THEN LStrip(Tail(s)) ELSE s

RECURSIVE RStrip(_)
RStrip(s) ==
    IF s # <<>> /\ s[Len(s)] \in Whitespace THEN RStrip(SubSeq(s, 1, Len(s) - 1)) ELSE s

Strip(s) == RStrip(LStrip(s))

VARIABLES
    initial_query,        \* run's argument initial_query, until run has read it
    use_clarifications,   \* run's argument use_clarifications, until read
    current_interaction,  \* self.current_interaction (None or a session)
    end_workflow,         \* self._end_workflow
    dpc,                  \* where the driver (run) is
    direct_report,        \* run's local report_data in the direct mode
    result,               \* what run returned (None while it has not)
    tasks,                \* the start_research tasks in flight (a bag)
    started,              \* start_research was delivered: never, once, repeatedly
    pipeline_called,      \* run has called run_with_clarifications_complete
    end_seen,             \* what the first end signal found (None before it)
    lastEvent,            \* the last event the loop handled and its outcome
    \* one run of the research pipeline of a manager, seen from inside
    manager,              \* the manager that runs it ("none": no run is looked at)
    mpc,                  \* where the coroutine that runs the pipeline is
    search_tasks,         \* _perform_searches: the state of each _search task
    completion,           \* the _search tasks that are over, in that order
    num_completed,        \* _perform_searches: tasks its loop has awaited
    results,              \* _perform_searches: its list results
    report_data,          \* the report _write_report returned (None before)
    image_task,           \* the task running _generate_research_image
    research_image        \* self.research_image_path, _description

workflowVars == <<initial_query, use_clarifications, current_interaction,
                  end_workflow, dpc, direct_report, result, tasks, started,
                  pipeline_called, end_seen, lastEvent>>

managerVars == <<manager, mpc, search_tasks, completion, num_completed, results,
                 report_data, image_task, research_image>>

vars == <<workflowVars, managerVars>>

(***************************************************************************)
(* ResearchInteraction                                                     *)
(***************************************************************************)
ResearchInteraction(query, st) ==
    [ original_query |-> query,
      status |-> st,
      clarification_questions |-> None,
      clarification_responses |-> <<>>,
      current_question_index |-> 0,
      final_result |-> None,
      report_data |-> None ]

\* len(self.clarification_questions or [])
NumQuestions(s) ==
    IF IsSome(s.clarification_questions) THEN Len(Get(s.clarification_questions)) ELSE 0

\* dict assignment d[k] = v
DictSet(d, k, v) == [x \in DOMAIN d \cup {k} |-> IF x = k THEN v ELSE d[x]]

\* ResearchInteraction.answer_current_question: the session afterwards
AnswerCurrentQuestion(s, answer) ==
    [s EXCEPT !.clarification_responses =
                  DictSet(@, QuestionKey(s.current_question_index), answer),
              !.current_question_index = @ + 1]

\* ResearchInteraction.answer_current_question: its return value (has_more)
HasMore(s) == s.current_question_index < NumQuestions(s)

\* truthiness of a dict
NonEmptyDict(d) == DOMAIN d # {}

(***************************************************************************)
(* Results of run.                                                         *)
(***************************************************************************)
InteractiveResearchResult(summary, markdown, followups, pdf) ==
    [ short_summary |-> summary,
      markdown_report |-> markdown,
      follow_up_questions |-> followups,
      pdf_file_path |-> pdf ]

\* (a variant in which the ended result is the placeholder)
EndedResult_AsPlaceholder ==
    InteractiveResearchResult("No research completed",
                              "No research completed", <<>>, None)

EndedResult ==
    InteractiveResearchResult("Research ended by user",
                              "Research workflow ended by user", <<>>, None)

NoResearchResult(s) ==
    InteractiveResearchResult(
        "No research completed",
        IF IsSome(s) /\ IsSome(Get(s).final_result) /\ Get(Get(s).final_result) # ""
            THEN Get(Get(s).final_result) ELSE "No research completed",
        <<>>, None)

ReportResult(r, pdf) ==
    InteractiveResearchResult(r.short_summary, r.markdown_report,
                              r.follow_up_questions, pdf)

(***************************************************************************)
(* ClarificationResult, as run_with_clarifications_start builds it.        *)
(***************************************************************************)
ClarificationResult(needs, questions, output, report) ==
    [ needs_clarifications |-> needs,
      questions |-> questions,
      research_output |-> output,
      report_data |-> report ]

NeedsClarifications(qs) == ClarificationResult(TRUE, Some(qs), None, None)

\* (a variant that leaves the research to the driver and returns no report)
ResearchDone_Deferred(r) == ClarificationResult(FALSE, None, None, None)

ResearchDone(r) == ClarificationResult(FALSE, None, Some(r.markdown_report), Some(r))

\* a start_research task suspended in run_with_clarifications_start, and
\* one suspended in workflow.sleep holding the ClarificationResult res
TriageTask == [pc |-> "triage", result |-> None]
SleepTask(res) == [pc |-> "sleep", result |-> Some(res)]

\* an event the loop handled: a message (update, signal, query) with the
\* error it was refused with ("none" when it was accepted), or the
\* resolution of a call or timer a task was waiting for
Message(op, error) == [kind |-> "message", op |-> op, error |-> error]
Resolution(error) == [kind |-> "resolution", op |-> "await", error |-> error]

(***************************************************************************)
(* The image task and the state of a manager no pipeline run of which is   *)
(* looked at.                                                              *)
(***************************************************************************)
\* (image_file_path, description) as _generate_research_image returns them
NoImage == <<None, None>>
Image == <<Some("image.png"), Some("two sentences")>>

\* the task created for _generate_research_image: where it is and, once it
\* is done, its value
ImageTask(pc, value) == [pc |-> pc, value |-> value]
NoImageTask == ImageTask("none", NoImage)

ManagerIdle ==
    /\ manager = "none"
    /\ mpc = "idle"
    /\ search_tasks = <<>>
    /\ completion = <<>>
    /\ num_completed = 0
    /\ results = <<>>
    /\ report_data = None
    /\ image_task = NoImageTask
    /\ research_image = NoImage

(***************************************************************************)
(* __init__ and the workflow's start.                                      *)
(***************************************************************************)
Init ==
    /\ initial_query \in InitialQueries
    /\ use_clarifications \in BOOLEAN
    /\ current_interaction = None
    /\ end_workflow = FALSE
    /\ dpc = "init"
    /\ direct_report = None
    /\ result = None
    /\ tasks = EmptyBag
    /\ started = "never"
    /\ pipeline_called = FALSE
    /\ end_seen = None
    /\ lastEvent = Resolution("none")
    /\ ManagerIdle

(***************************************************************************)
(* The condition run waits on, and the loop's rule for evaluating it: the  *)
(* conditions are checked when every task is suspended, after the signals  *)
(* and updates of one workflow task and again after its resolved timers    *)
(* and calls, so a waiter whose condition holds resumes before any event   *)
(* of another batch is handled.                                            *)
(***************************************************************************)
WaitCondition ==
    \/ end_workflow
    \/ /\ IsSome(current_interaction)
       /\ Get(current_interaction).status \in {"researching", "completed"}

WakePending == dpc = "wait" /\ WaitCondition

Running == dpc \notin {"init", "done", "failed"}

MayHandleMessage == Running /\ (WakePending => lastEvent.kind = "message")
MayResolveCall == Running /\ (WakePending => lastEvent.kind = "resolution")
MayFireTimer == Running /\ ~WakePending

(***************************************************************************)
(* start_research and _start_interactive_research, one task per update.    *)
(***************************************************************************)
\* the update arrives: the session is replaced by a fresh pending one and
\* the task suspends in run_with_clarifications_start
StartResearch(query) ==
    /\ MayHandleMessage
    /\ BagCardinality(tasks) < MaxStarts
    /\ current_interaction' = Some(ResearchInteraction(query, "pending"))
    /\ tasks' = tasks (+) SetToBag({TriageTask})
    /\ started' = IF started = "never" THEN "once" ELSE "repeatedly"
    /\ lastEvent' = Message("start_research", "none")
    /\ UNCHANGED <<initial_query, use_clarifications, end_workflow, dpc,
                   direct_report, result, pipeline_called, end_seen,
                   managerVars>>

\* run_with_clarifications_start returns; res is its ClarificationResult.
\* With clarifications the task finishes (the update returns the session),
\* without it suspends in workflow.sleep
TriageReturn(res) ==
    /\ MayResolveCall
    /\ BagIn(TriageTask, tasks)
    /\ lastEvent' = Resolution("none")
    /\ IF res.needs_clarifications
          THEN /\ current_interaction' =
                     Some([Get(current_interaction) EXCEPT
                              !.clarification_questions = res.questions,
                              !.status = "awaiting_clarifications"])
               /\ tasks' = tasks (-) SetToBag({TriageTask})
          ELSE /\ current_interaction' =
                     Some([Get(current_interaction) EXCEPT !.status = "researching"])
               /\ tasks' = (tasks (-) SetToBag({TriageTask})) (+) SetToBag({SleepTask(res)})
    /\ UNCHANGED <<initial_query, use_clarifications, end_workflow, dpc,
                   direct_report, result, started, pipeline_called, end_seen,
                   managerVars>>

\* run_with_clarifications_start raises (the triage agent, or the planner,
\* writer of the inline pipeline): the update fails, nothing is written
TriageFail ==
    /\ MayResolveCall
    /\ BagIn(TriageTask, tasks)
    /\ lastEvent' = Resolution("raised")
    /\ tasks' = tasks (-) SetToBag({TriageTask})
    /\ UNCHANGED <<initial_query, use_clarifications, current_interaction,
                   end_workflow, dpc, direct_report, result, started,
                   pipeline_called, end_seen,
                   managerVars>>

\* workflow.sleep(0.1) of the task t is over: the task writes the results
\* and finishes
SleepFire(t) ==
    /\ MayFireTimer
    /\ BagIn(t, tasks)
    /\ t.pc = "sleep"
    /\ lastEvent' = Resolution("none")
    /\ current_interaction' =
          Some([Get(current_interaction) EXCEPT
                   !.final_result = Get(t.result).research_output,
                   !.report_data = Get(t.result).report_data,
                   !.status = "completed"])
    /\ tasks' = tasks (-) SetToBag({t})
    /\ UNCHANGED <<initial_query, use_clarifications, end_workflow, dpc,
                   direct_report, result, started, pipeline_called, end_seen,
                   managerVars>>

(***************************************************************************)
(* The driver: InteractiveResearchWorkflow.run                             *)
(***************************************************************************)
\* (a variant that does not look at use_clarifications)
DirectMode_IgnoresFlag == IsSome(initial_query) /\ Get(initial_query) # ""

\* the mode test at the top of run
DirectMode == IsSome(initial_query) /\ Get(initial_query) # "" /\ ~use_clarifications

\* run starts: it reads its two arguments, here and nowhere else, and
\* suspends in _run_direct or in wait_condition
RunStart ==
    /\ dpc = "init"
    /\ dpc' = IF DirectMode THEN "direct" ELSE "wait"
    /\ initial_query' = None
    /\ use_clarifications' = FALSE
    /\ UNCHANGED <<current_interaction, end_workflow, direct_report, result,
                   tasks, started, pipeline_called, lastEvent, end_seen,
                   managerVars>>

\* (a variant that looks at the ended flag again once the pipeline call is
\* over)
ReturnOrRenderPdf_RechecksEnd(ci) ==
    IF end_workflow
        THEN dpc' = "done" /\ result' = Some(EndedResult)
        ELSE IF IsSome(ci) /\ IsSome(Get(ci).report_data)
        THEN dpc' = "pdf" /\ result' = result
        ELSE dpc' = "done" /\ result' = Some(NoResearchResult(ci))

\* the tail of run from "if self.current_interaction and ...report_data"
\* on, for the session ci: either the PDF call is awaited or run returns
\* the placeholder
ReturnOrRenderPdf(ci) ==
    IF IsSome(ci) /\ IsSome(Get(ci).report_data)
        THEN dpc' = "pdf" /\ result' = result
        ELSE dpc' = "done" /\ result' = Some(NoResearchResult(ci))

\* (a variant with the test on the responses inverted)
SkipsPipeline_Inverted(ci) ==
    ~IsSome(ci) \/ NonEmptyDict(Get(ci).clarification_responses)

\* _complete_research_with_clarifications returns at once when there is no
\* session or no response
SkipsPipeline(ci) == ~IsSome(ci) \/ ~NonEmptyDict(Get(ci).clarification_responses)

\* (a variant with the researching test ahead of the ended test)
DriverBranch_StatusFirst ==
    IF IsSome(current_interaction)
       /\ Get(current_interaction).status = "researching"
       /\ ~SkipsPipeline(current_interaction)
    THEN "pipeline"
    ELSE IF end_workflow THEN "ended"
    ELSE "finish"

\* the branch run takes when it resumes from wait_condition: the ended
\* test comes first, then the researching test, then the tail of run
DriverBranch ==
    IF end_workflow THEN "ended"
    ELSE IF IsSome(current_interaction)
            /\ Get(current_interaction).status = "researching"
            /\ ~SkipsPipeline(current_interaction)
    THEN "pipeline"
    ELSE "finish"

\* str of an answer given as its characters
RECURSIVE Str(_)
Str(chars) == IF chars = <<>> THEN "" ELSE Head(chars) \o Str(Tail(chars))

\* (a variant that numbers the keys from 1)
AnswerOrDefault_OneBased(responses, i) ==
    IF QuestionKey(i + 1) \in DOMAIN responses
        THEN Str(responses[QuestionKey(i + 1)])
        ELSE "No specific preference"

\* responses.get(f"question_{i}", "No specific preference")
AnswerOrDefault(responses, i) ==
    IF QuestionKey(i) \in DOMAIN responses
        THEN Str(responses[QuestionKey(i)])
        ELSE "No specific preference"

\* the loop of _enrich_query from the index i on (i counts from 0, as
\* enumerate does): one line is appended to enriched per question
RECURSIVE EnrichLoop(_, _, _, _)
EnrichLoop(enriched, questions, responses, i) ==
    IF i >= Len(questions) THEN enriched
    ELSE EnrichLoop(enriched \o "- " \o questions[i + 1] \o ": "
                        \o AnswerOrDefault(responses, i) \o "\n",
                    questions, responses, i + 1)

\* _enrich_query
EnrichQuery(original_query, questions, responses) ==
    EnrichLoop("Original query: " \o original_query
                   \o "\n\nAdditional context from clarifications:\n",
               questions, responses, 0)

\* the arguments _complete_research_with_clarifications passes to
\* run_with_clarifications_complete, and the query the latter researches
PipelineQuestions ==
    IF IsSome(Get(current_interaction).clarification_questions)
        THEN Get(Get(current_interaction).clarification_questions) ELSE <<>>

PipelineQuery ==
    EnrichQuery(Get(current_interaction).original_query,
                PipelineQuestions,
                Get(current_interaction).clarification_responses)

\* run resumes from wait_condition and runs to its next await or its return
DriverWake ==
    /\ WakePending
    /\ CASE DriverBranch = "ended" ->
               /\ dpc' = "done"
               /\ result' = Some(EndedResult)
               /\ UNCHANGED pipeline_called
         [] DriverBranch = "pipeline" ->
               /\ dpc' = "pipeline"
               /\ pipeline_called' = TRUE
               /\ UNCHANGED result
         [] DriverBranch = "finish" ->
               /\ ReturnOrRenderPdf(current_interaction)
               /\ UNCHANGED pipeline_called
    /\ UNCHANGED <<initial_query, use_clarifications, current_interaction,
                   end_workflow, direct_report, tasks, started, lastEvent,
                   end_seen,
                   managerVars>>

\* run_with_clarifications_complete returns the report r
PipelineReturn(r) ==
    /\ dpc = "pipeline"
    /\ current_interaction' =
          Some([Get(current_interaction) EXCEPT
                   !.final_result = Some(r.markdown_report),
                   !.report_data = Some(r),
                   !.status = "completed"])
    /\ ReturnOrRenderPdf(current_interaction')
    /\ UNCHANGED <<initial_query, use_clarifications, end_workflow,
                   direct_report, tasks, started, pipeline_called, lastEvent,
                   end_seen,
                   managerVars>>

\* (a variant that swallows the exception and lets run go on to its tail)
PipelineFail_Swallowed ==
    /\ dpc = "pipeline"
    /\ ReturnOrRenderPdf(current_interaction)
    /\ UNCHANGED <<initial_query, use_clarifications, current_interaction,
                   end_workflow, direct_report, tasks, started,
                   pipeline_called, lastEvent, end_seen,
                   managerVars>>

\* run_with_clarifications_complete raises: the exception leaves run
PipelineFail ==
    /\ dpc = "pipeline"
    /\ dpc' = "failed"
    /\ UNCHANGED <<initial_query, use_clarifications, current_interaction,
                   end_workflow, direct_report, result, tasks, started,
                   pipeline_called, lastEvent, end_seen,
                   managerVars>>

\* _generate_pdf_report returns pdf (a path or None, it never raises); the
\* result is built from the report_data of the session that is current now
PdfReturn(pdf) ==
    /\ dpc = "pdf"
    /\ IF IsSome(Get(current_interaction).report_data)
          THEN /\ dpc' = "done"
               /\ result' = Some(ReportResult(Get(Get(current_interaction).report_data), pdf))
          ELSE /\ dpc' = "failed"
               /\ UNCHANGED result
    /\ UNCHANGED <<initial_query, use_clarifications, current_interaction,
                   end_workflow, direct_report, tasks, started,
                   pipeline_called, lastEvent, end_seen,
                   managerVars>>

\* direct mode: _run_direct returns the report r
DirectReturn(r) ==
    /\ dpc = "direct"
    /\ dpc' = "direct_pdf"
    /\ direct_report' = Some(r)
    /\ UNCHANGED <<initial_query, use_clarifications, current_interaction,
                   end_workflow, result, tasks, started, pipeline_called,
                   lastEvent, end_seen,
                   managerVars>>

DirectFail ==
    /\ dpc = "direct"
    /\ dpc' = "failed"
    /\ UNCHANGED <<initial_query, use_clarifications, current_interaction,
                   end_workflow, direct_report, result, tasks, started,
                   pipeline_called, lastEvent, end_seen,
                   managerVars>>

DirectPdfReturn(pdf) ==
    /\ dpc = "direct_pdf"
    /\ dpc' = "done"
    /\ result' = Some(ReportResult(Get(direct_report), pdf))
    /\ UNCHANGED <<initial_query, use_clarifications, current_interaction,
                   end_workflow, direct_report, tasks, started,
                   pipeline_called, lastEvent, end_seen,
                   managerVars>>

(***************************************************************************)
(* The update, signal and query handlers without an await.                 *)
(***************************************************************************)
\* (a variant without the strip)
ValidSingleClarification_NoStrip(answer) == answer # <<>>

\* validate_single_clarification accepts the answer
ValidSingleClarification(answer) == Strip(answer) # <<>>

\* (a variant that accepts every map)
ValidProvideClarifications_Always(responses) == TRUE

\* validate_provide_clarifications accepts the map
ValidProvideClarifications(responses) == NonEmptyDict(responses)

\* (a variant that refuses the finished session only)
AcceptsSingle_UnlessCompleted(s) == s.status # "completed"

\* the status test of provide_single_clarification
AcceptsSingle(s) == s.status \in {"awaiting_clarifications", "collecting_answers"}

\* (a variant that also takes a bulk answer after a first single answer)
AcceptsBulk_AlsoCollecting(s) ==
    s.status \in {"awaiting_clarifications", "collecting_answers"}

\* the status test of provide_clarifications
AcceptsBulk(s) == s.status = "awaiting_clarifications"

\* the body of provide_single_clarification once its checks passed
SingleClarificationEffect(s, answer) ==
    LET collecting == IF s.status = "awaiting_clarifications"
                         THEN [s EXCEPT !.status = "collecting_answers"]
                         ELSE s
        answered == AnswerCurrentQuestion(collecting, answer)
    IN  IF ~HasMore(answered)
            THEN [answered EXCEPT !.status = "researching"]
            ELSE answered

\* (a variant that moves the index by the number of responses supplied)
ProvideClarificationsEffect_CountsResponses(s, responses) ==
    [s EXCEPT !.clarification_responses = responses,
              !.current_question_index = Cardinality(DOMAIN responses),
              !.status = "researching"]

\* the body of provide_clarifications once its checks passed
ProvideClarificationsEffect(s, responses) ==
    [s EXCEPT !.clarification_responses = responses,
              !.current_question_index = NumQuestions(s),
              !.status = "researching"]

\* (a variant in which the handler's session test runs ahead of the
\* validator)
ProvideSingleClarification_SessionTestFirst(idx, answer) ==
    /\ MayHandleMessage
    /\ IF ~IsSome(current_interaction)
          THEN /\ lastEvent' = Message("provide_single_clarification", "NoActiveInteraction")
               /\ UNCHANGED current_interaction
          ELSE IF ~ValidSingleClarification(answer)
          THEN /\ lastEvent' = Message("provide_single_clarification", "ValidationError")
               /\ UNCHANGED current_interaction
          ELSE IF ~AcceptsSingle(Get(current_interaction))
          THEN /\ lastEvent' = Message("provide_single_clarification", "InvalidState")
               /\ UNCHANGED current_interaction
          ELSE /\ current_interaction' =
                     Some(SingleClarificationEffect(Get(current_interaction), answer))
               /\ lastEvent' = Message("provide_single_clarification", "none")
    /\ UNCHANGED <<initial_query, use_clarifications, end_workflow, dpc,
                   direct_report, result, tasks, started, pipeline_called,
                   end_seen,
                   managerVars>>

\* the update provide_single_clarification: its validator, then its handler
ProvideSingleClarification(idx, answer) ==
    /\ MayHandleMessage
    /\ IF ~ValidSingleClarification(answer)
          THEN /\ lastEvent' = Message("provide_single_clarification", "ValidationError")
               /\ UNCHANGED current_interaction
          ELSE IF ~IsSome(current_interaction)
          THEN /\ lastEvent' = Message("provide_single_clarification", "NoActiveInteraction")
               /\ UNCHANGED current_interaction
          ELSE IF ~AcceptsSingle(Get(current_interaction))
          THEN /\ lastEvent' = Message("provide_single_clarification", "InvalidState")
               /\ UNCHANGED current_interaction
          ELSE /\ current_interaction' =
                     Some(SingleClarificationEffect(Get(current_interaction), answer))
               /\ lastEvent' = Message("provide_single_clarification", "none")
    /\ UNCHANGED <<initial_query, use_clarifications, end_workflow, dpc,
                   direct_report, result, tasks, started, pipeline_called,
                   end_seen,
                   managerVars>>

ProvideClarifications(responses) ==
    /\ MayHandleMessage
    /\ IF ~ValidProvideClarifications(responses)
          THEN /\ lastEvent' = Message("provide_clarifications", "ValidationError")
               /\ UNCHANGED current_interaction
          ELSE IF ~IsSome(current_interaction)
          THEN /\ lastEvent' = Message("provide_clarifications", "NoActiveInteraction")
               /\ UNCHANGED current_interaction
          ELSE IF ~AcceptsBulk(Get(current_interaction))
          THEN /\ lastEvent' = Message("provide_clarifications", "InvalidState")
               /\ UNCHANGED current_interaction
          ELSE /\ current_interaction' =
                     Some(ProvideClarificationsEffect(Get(current_interaction), responses))
               /\ lastEvent' = Message("provide_clarifications", "none")
    /\ UNCHANGED <<initial_query, use_clarifications, end_workflow, dpc,
                   direct_report, result, tasks, started, pipeline_called,
                   end_seen,
                   managerVars>>

\* the status a caller sees ("absent" before any start_research)
StatusOrAbsent == IF IsSome(current_interaction) THEN Get(current_interaction).status ELSE "absent"

\* what an end signal finds: the session's status if the driver is still
\* suspended in its wait, "running" if the driver has left the wait
EndFinds == IF dpc = "wait" THEN StatusOrAbsent ELSE "running"

\* (a variant that does not set the flag)
EndWorkflowSignal_FlagNotSet ==
    /\ MayHandleMessage
    /\ end_workflow' = end_workflow
    /\ end_seen' = IF IsSome(end_seen) THEN end_seen ELSE Some(EndFinds)
    /\ lastEvent' = Message("end_workflow_signal", "none")
    /\ UNCHANGED <<initial_query, use_clarifications, current_interaction, dpc,
                   direct_report, result, tasks, started, pipeline_called,
                   managerVars>>

\* (a variant that also closes the session)
EndWorkflowSignal_ClosesSession ==
    /\ MayHandleMessage
    /\ end_workflow' = TRUE
    /\ end_seen' = IF IsSome(end_seen) THEN end_seen
                   ELSE Some(EndFinds)
    /\ lastEvent' = Message("end_workflow_signal", "none")
    /\ current_interaction' =
          IF IsSome(current_interaction)
              THEN Some([Get(current_interaction) EXCEPT !.status = "completed"])
              ELSE None
    /\ UNCHANGED <<initial_query, use_clarifications, dpc, direct_report,
                   result, tasks, started, pipeline_called,
                   managerVars>>

EndWorkflowSignal ==
    /\ MayHandleMessage
    /\ end_workflow' = TRUE
    /\ end_seen' = IF IsSome(end_seen) THEN end_seen
                   ELSE Some(EndFinds)
    /\ lastEvent' = Message("end_workflow_signal", "none")
    /\ UNCHANGED <<initial_query, use_clarifications, current_interaction,
                   dpc, direct_report, result, tasks, started,
                   pipeline_called,
                   managerVars>>

\* (a variant that hands the session out and forgets it)
GetStatus_ForgetsSession ==
    /\ MayHandleMessage
    /\ lastEvent' = Message("get_status", "none")
    /\ current_interaction' = None
    /\ UNCHANGED <<initial_query, use_clarifications, end_workflow, dpc,
                   direct_report, result, tasks, started, pipeline_called,
                   end_seen,
                   managerVars>>

\* the value the query get_status returns: self.current_interaction
GetStatusReturns == current_interaction

\* the query get_status is handled
GetStatus ==
    /\ MayHandleMessage
    /\ lastEvent' = Message("get_status", "none")
    /\ UNCHANGED <<initial_query, use_clarifications, current_interaction,
                   end_workflow, dpc, direct_report, result, tasks, started,
                   pipeline_called, end_seen,
                   managerVars>>

(***************************************************************************)
(* The specification.                                                      *)
(***************************************************************************)
\* what the triage agent's run ends with: a Clarifications object holding
\* its question list, the text of the agent the query was handed to when
\* no clarification is needed, or an output that is neither (malformed: a
\* Clarifications that does not parse, an object without final_output)
TriageOutputs ==
    {[kind |-> "clarifications", questions |-> qs] : qs \in QuestionLists}
        \cup {[kind |-> "instructions", questions |-> <<>>],
              [kind |-> "malformed", questions |-> <<>>]}

\* _extract_clarifications: the Clarifications object of the output, absent
\* for every other output; whatever is raised on the way is swallowed and
\* absent is returned
ExtractClarifications(out) ==
    IF out.kind = "clarifications" THEN Some(out.questions) ELSE None

\* run_with_clarifications_start for a triage output out, r being the
\* report the inline plan, search and write steps produce: the test is on
\* the object, so an empty question list still asks for clarifications
RunWithClarificationsStart(out, r) ==
    IF IsSome(ExtractClarifications(out))
        THEN NeedsClarifications(Get(ExtractClarifications(out)))
        ELSE ResearchDone(r)

TriageResults ==
    {RunWithClarificationsStart(out, r) : out \in TriageOutputs, r \in Reports}

Next ==
    \/ RunStart
    \/ DriverWake
    \/ \E r \in Reports : PipelineReturn(r)
    \/ PipelineFail
    \/ \E pdf \in PdfPaths : PdfReturn(pdf)
    \/ \E r \in Reports : DirectReturn(r)
    \/ DirectFail
    \/ \E pdf \in PdfPaths : DirectPdfReturn(pdf)
    \/ \E query \in Queries : StartResearch(query)
    \/ \E res \in TriageResults : TriageReturn(res)
    \/ TriageFail
    \/ \E t \in BagToSet(tasks) : SleepFire(t)
    \/ \E idx \in 0..MaxQuestions, answer \in Answers : ProvideSingleClarification(idx, answer)
    \/ \E responses \in BulkMaps : ProvideClarifications(responses)
    \/ EndWorkflowSignal
    \/ GetStatus

Spec == Init /\ [][Next]_vars

(***************************************************************************)
(* Fairness: the event loop runs every coroutine that is ready, a timer    *)
(* fires, and a call to an agent or an activity returns or raises.         *)
(* Nothing obliges a caller to send a message.                             *)
(***************************************************************************)
Fairness ==
    /\ WF_vars(RunStart)
    /\ WF_vars(DriverWake)
    /\ WF_vars((\E r \in Reports : PipelineReturn(r)) \/ PipelineFail)
    /\ WF_vars(\E pdf \in PdfPaths : PdfReturn(pdf))
    /\ WF_vars((\E r \in Reports : DirectReturn(r)) \/ DirectFail)
    /\ WF_vars(\E pdf \in PdfPaths : DirectPdfReturn(pdf))
    /\ WF_vars((\E res \in TriageResults : TriageReturn(res)) \/ TriageFail)
    /\ WF_vars(\E t \in BagToSet(tasks) : SleepFire(t))

LiveSpec == Spec /\ Fairness

(***************************************************************************)
(* One run of the research pipeline, seen from inside the manager.         *)
(*                                                                         *)
(* InteractiveResearchManager.run_with_clarifications_complete (the call   *)
(* the driver awaits, PipelineReturn and PipelineFail above) starts the    *)
(* image task, then plans, searches and writes, and awaits the image task  *)
(* before it returns the report.  ResearchWorkflow.run does the plan, the  *)
(* searches and the report with a SimpleResearchManager and then asks the  *)
(* manager for the PDF.  _perform_searches and _search are the same code   *)
(* in both managers.  Every agent and activity call is an await; what it   *)
(* returns, or that it raises, is chosen by the action.                    *)
(***************************************************************************)
Managers == {"interactive", "simple"}

\* the methods each manager class defines
Methods(m) ==
    IF m = "simple"
        THEN {"run", "_plan_searches", "_perform_searches", "_search",
              "_write_report"}
        ELSE {"run", "_run_direct", "run_with_clarifications_start",
              "run_with_clarifications_complete", "_extract_clarifications",
              "_enrich_query", "_plan_searches", "_perform_searches", "_search",
              "_write_report", "_generate_research_image",
              "_generate_pdf_report", "_cleanup_temp_image"}

\* the manager methods ResearchWorkflow.run calls
InvokedByResearchWorkflow ==
    {"_plan_searches", "_perform_searches", "_write_report", "_generate_pdf_report"}

\* search plans: search_plan.searches has n items
SearchPlans == 0..MaxSearches

\* str(result.final_output) of the search for the item i
SearchOutput(i) == "result " \o ToString(i)

\* the workflow around the pipeline run plays no part in it
WorkflowIdle ==
    /\ initial_query = None
    /\ use_clarifications = FALSE
    /\ current_interaction = None
    /\ end_workflow = FALSE
    /\ dpc = "init"
    /\ direct_report = None
    /\ result = None
    /\ tasks = EmptyBag
    /\ started = "never"
    /\ pipeline_called = FALSE
    /\ end_seen = None
    /\ lastEvent = Resolution("none")

\* the pipeline is entered: the interactive manager creates the image task
\* first; both then await _plan_searches
ResearchInit ==
    /\ WorkflowIdle
    /\ manager \in Managers
    /\ mpc = "plan"
    /\ search_tasks = <<>>
    /\ completion = <<>>
    /\ num_completed = 0
    /\ results = <<>>
    /\ report_data = None
    /\ image_task = IF manager = "interactive"
                        THEN ImageTask("describing", NoImage) ELSE NoImageTask
    /\ research_image = NoImage

PipelineRunning == mpc \in {"plan", "search", "write", "image"}

\* _plan_searches returns a plan of n searches; _perform_searches creates
\* one _search task per item and enters its loop, which is over at once
\* for an empty plan, and then _write_report is awaited
PlanReturn(n) ==
    /\ mpc = "plan"
    /\ search_tasks' = [i \in 1..n |-> "running"]
    /\ mpc' = IF n = 0 THEN "write" ELSE "search"
    /\ UNCHANGED <<workflowVars, manager, completion, num_completed, results,
                   report_data, image_task, research_image>>

\* _plan_searches raises: the exception leaves the pipeline
PlanFail ==
    /\ mpc = "plan"
    /\ mpc' = "raised"
    /\ UNCHANGED <<workflowVars, manager, search_tasks, completion,
                   num_completed, results, report_data, image_task,
                   research_image>>

\* (a variant of _search without the try: the exception of the agent
\* leaves _perform_searches when the loop awaits the task)
SearchOutcome_Propagates(raised) == IF raised THEN "raised" ELSE "returned"

\* how the task of a _search ends: with the text, or, when Runner.run
\* raised, with None (the exception is swallowed)
SearchOutcome(raised) == IF raised THEN "none" ELSE "returned"

\* the _search task of the item i is over
SearchEnds(i, raised) ==
    /\ mpc = "search"
    /\ i \in DOMAIN search_tasks
    /\ search_tasks[i] = "running"
    /\ search_tasks' = [search_tasks EXCEPT ![i] = SearchOutcome(raised)]
    /\ completion' = Append(completion, i)
    /\ UNCHANGED <<workflowVars, manager, mpc, num_completed, results,
                   report_data, image_task, research_image>>

\* the loop over workflow.as_completed(tasks) awaits the next task that is
\* over, appends its result unless it is None, and counts it; after the
\* last task _perform_searches returns and _write_report is awaited
LoopAwaitsTask ==
    /\ mpc = "search"
    /\ num_completed < Len(completion)
    /\ LET i == completion[num_completed + 1]
       IN  IF search_tasks[i] = "raised"
               THEN /\ mpc' = "raised"
                    /\ UNCHANGED <<results, num_completed>>
               ELSE /\ results' = IF search_tasks[i] = "returned"
                                      THEN Append(results, SearchOutput(i))
                                      ELSE results
                    /\ num_completed' = num_completed + 1
                    /\ mpc' = IF num_completed + 1 = Len(search_tasks)
                                  THEN "write" ELSE "search"
    /\ UNCHANGED <<workflowVars, manager, search_tasks, completion,
                   report_data, image_task, research_image>>

\* _write_report returns r.  The interactive manager goes on to await the
\* image task; ResearchWorkflow.run goes on to manager._generate_pdf_report,
\* and looking up a method the manager does not define raises
\* AttributeError
WriteReturn(r) ==
    /\ mpc = "write"
    /\ report_data' = Some(r)
    /\ mpc' = IF manager = "interactive" THEN "image"
              ELSE IF InvokedByResearchWorkflow \subseteq Methods(manager) THEN "pdf"
              ELSE "raised"
    /\ UNCHANGED <<workflowVars, manager, search_tasks, completion,
                   num_completed, results, image_task, research_image>>

\* _write_report raises
WriteFail ==
    /\ mpc = "write"
    /\ mpc' = "raised"
    /\ UNCHANGED <<workflowVars, manager, search_tasks, completion,
                   num_completed, results, report_data, image_task,
                   research_image>>

\* (a variant in which an exception of the image activity is not caught)
ImageActivityRaised_Propagates ==
    /\ image_task' = ImageTask("done", NoImage)
    /\ mpc' = "raised"

\* the except clauses of _generate_research_image: the task ends with
\* (None, None)
ImageActivityRaised ==
    /\ image_task' = ImageTask("done", NoImage)
    /\ mpc' = mpc

\* the image description agent returns (success or not) or raises
DescribeEnds(outcome) ==
    /\ PipelineRunning
    /\ image_task.pc = "describing"
    /\ CASE outcome = "success" ->
               image_task' = ImageTask("generating", NoImage) /\ mpc' = mpc
         [] outcome = "unsuccessful" ->
               image_task' = ImageTask("done", NoImage) /\ mpc' = mpc
         [] outcome = "raised" -> ImageActivityRaised
    /\ UNCHANGED <<workflowVars, manager, search_tasks, completion,
                   num_completed, results, report_data, research_image>>

\* the generate_image activity returns (with a file or not) or raises
GenerateEnds(outcome) ==
    /\ PipelineRunning
    /\ image_task.pc = "generating"
    /\ CASE outcome = "success" ->
               image_task' = ImageTask("done", Image) /\ mpc' = mpc
         [] outcome = "unsuccessful" ->
               image_task' = ImageTask("done", NoImage) /\ mpc' = mpc
         [] outcome = "raised" -> ImageActivityRaised
    /\ UNCHANGED <<workflowVars, manager, search_tasks, completion,
                   num_completed, results, report_data, research_image>>

CallOutcomes == {"success", "unsuccessful", "raised"}

\* "image_path, image_description = await image_task": the pipeline stores
\* both and returns the report
AwaitImageTask ==
    /\ mpc = "image"
    /\ image_task.pc = "done"
    /\ research_image' = image_task.value
    /\ mpc' = "returned"
    /\ UNCHANGED <<workflowVars, manager, search_tasks, completion,
                   num_completed, results, report_data, image_task>>

ResearchNext ==
    \/ \E n \in SearchPlans : PlanReturn(n)
    \/ PlanFail
    \/ \E i \in 1..MaxSearches, raised \in BOOLEAN : SearchEnds(i, raised)
    \/ LoopAwaitsTask
    \/ \E r \in Reports : WriteReturn(r)
    \/ WriteFail
    \/ \E outcome \in CallOutcomes : DescribeEnds(outcome)
    \/ \E outcome \in CallOutcomes : GenerateEnds(outcome)
    \/ AwaitImageTask

ResearchSpec == ResearchInit /\ [][ResearchNext]_vars

(***************************************************************************)
(* Notions the properties below share.                                     *)
(***************************************************************************)
Session == Get(current_interaction)

\* run has returned a result (the workflow is closed, nothing runs any more)
RunReturned == dpc = "done"

\* run took the interactive path (it went through wait_condition)
InteractiveRun == RunReturned /\ direct_report = None

\* start_research was delivered exactly once
SingleStart == started = "once"

\* the start tasks in the no-clarification branch, between setting
\* status = researching and writing the results
SleepingTasks == {t \in BagToSet(tasks) : t.pc = "sleep"}

\* the reports the pipeline has produced for the session so far
ProducedReports ==
    {Get(Get(t.result).report_data) : t \in SleepingTasks}
    \cup (IF IsSome(current_interaction) /\ IsSome(Session.report_data)
             THEN {Get(Session.report_data)} ELSE {})

(***************************************************************************)
(* C1: when start_research finds that no clarification is needed and the   *)
(* pipeline succeeds, the session reaches status completed with            *)
(* report_data and final_result set.  Stated on the final state of a run   *)
(* with one start_research and no end signal: once run has returned the    *)
(* workflow is closed, so the session must be completed by then.           *)
(***************************************************************************)
C1_NoClarificationSessionCompletes ==
    (InteractiveRun /\ ~end_workflow /\ SingleStart
        /\ (SleepingTasks # {}
              \/ (tasks = EmptyBag /\ Session.status \in {"researching", "completed"}
                    /\ ~IsSome(Session.clarification_questions))))
    => /\ Session.status = "completed"
       /\ IsSome(Session.report_data)
       /\ IsSome(Session.final_result)

(***************************************************************************)
(* C2: in an interactive run in which the pipeline produced a report and   *)
(* end was never signalled, what run returns carries that report's short   *)
(* summary, markdown and follow-up questions, never the "No research       *)
(* completed" placeholder.                                                 *)
(***************************************************************************)
C2_RunReturnsTheProducedReport ==
    (InteractiveRun /\ ~end_workflow /\ ProducedReports # {})
    => \E r \in ProducedReports, pdf \in PdfPaths : result = Some(ReportResult(r, pdf))

(***************************************************************************)
(* C3, as stated: in the no-clarification branch the pipeline is not run   *)
(* inside the start operation, so no start_research task ever holds a      *)
(* report of the pipeline.                                                 *)
(***************************************************************************)
C3_StartNeverRunsThePipeline ==
    \A t \in BagToSet(tasks) :
        IsSome(t.result) => ~IsSome(Get(t.result).report_data)

(***************************************************************************)
(* C3, amended: in the no-clarification branch the pipeline has already    *)
(* run inside the start operation when status = researching is set (the    *)
(* task holds the finished report and its markdown while it sleeps), and   *)
(* the driver calls the pipeline only for a session that has               *)
(* clarification responses.                                                *)
(***************************************************************************)
StartHoldsTheReport ==
    \A t \in SleepingTasks :
        /\ IsSome(t.result)
        /\ ~Get(t.result).needs_clarifications
        /\ IsSome(Get(t.result).report_data)
        /\ Get(t.result).research_output
              = Some(Get(Get(t.result).report_data).markdown_report)

DriverCallsPipelineOnlyWithResponses ==
    (dpc = "wait" /\ dpc' = "pipeline")
    => NonEmptyDict(Session.clarification_responses)

C3_StartRunsThePipelineInline ==
    []StartHoldsTheReport /\ [][DriverCallsPipelineOnlyWithResponses]_vars

C3_Witness ==
    /\ SleepingTasks # {}
    /\ Session.status = "researching"
    /\ ~NonEmptyDict(Session.clarification_responses)
    /\ result = Some(NoResearchResult(current_interaction))

(***************************************************************************)
(* C4: when triage returned N >= 1 questions, every question was answered, *)
(* end is never signalled, start_research is not repeated and the pipeline *)
(* does not fail, the driver runs the pipeline, the session becomes        *)
(* completed with a non-empty final_result, and run returns the report.    *)
(***************************************************************************)
AllQuestionsAnswered ==
    /\ dpc = "wait"
    /\ IsSome(current_interaction)
    /\ Session.status = "researching"
    /\ NumQuestions(Session) >= 1
    /\ Session.current_question_index = NumQuestions(Session)
    /\ DOMAIN Session.clarification_responses
          = {QuestionKey(i) : i \in 0..(NumQuestions(Session) - 1)}

CompletedAndReturned ==
    /\ RunReturned
    /\ pipeline_called
    /\ Session.status = "completed"
    /\ IsSome(Session.final_result)
    /\ Get(Session.final_result) # ""
    /\ IsSome(Session.report_data)
    /\ \E pdf \in PdfPaths : result = Some(ReportResult(Get(Session.report_data), pdf))

C4_AnsweredSessionCompletes ==
    ([]~end_workflow /\ [](started # "repeatedly") /\ [](dpc # "failed"))
    => [](AllQuestionsAnswered => <>CompletedAndReturned)

C4_Witness ==
    /\ CompletedAndReturned
    /\ ~end_workflow
    /\ started = "once"
    /\ NumQuestions(Session) = MaxQuestions
    /\ Session.current_question_index = MaxQuestions
    /\ lastEvent = Message("provide_single_clarification", "none")

(***************************************************************************)
(* C5: when the end signal arrives while the driver is suspended in its    *)
(* wait and the session is absent, awaiting_clarifications or              *)
(* collecting_answers, the pipeline is never invoked in that run, what run *)
(* returns is the "Research ended by user" result, and under fair          *)
(* scheduling run does return it.                                          *)
(***************************************************************************)
EndedBeforeResearch ==
    /\ IsSome(end_seen)
    /\ Get(end_seen) \in {"absent", "awaiting_clarifications", "collecting_answers"}

EndedRunNeverCallsPipeline ==
    EndedBeforeResearch =>
        /\ ~pipeline_called
        /\ dpc \in {"wait", "done"}
        /\ RunReturned => result = Some(EndedResult)

C5_EndBeforeResearchNeverRunsPipeline ==
    /\ []EndedRunNeverCallsPipeline
    /\ EndedBeforeResearch ~> (RunReturned /\ result = Some(EndedResult))

C5_Witness ==
    /\ RunReturned
    /\ end_seen = Some("awaiting_clarifications")
    /\ Session.status = "researching"
    /\ result = Some(EndedResult)

(***************************************************************************)
(* C6: whenever the driver resumes from its wait with the ended flag set,  *)
(* it returns the "Research ended by user" result in that same step,       *)
(* without calling the pipeline and without going on to the report,        *)
(* whatever the session's status is.                                       *)
(***************************************************************************)
C6_EndedHasPriorityAtWakeUp ==
    [][(dpc = "wait" /\ dpc' # "wait" /\ end_workflow)
        => (dpc' = "done" /\ result' = Some(EndedResult)
             /\ pipeline_called' = pipeline_called)]_vars

C6_Witness ==
    /\ RunReturned
    /\ result = Some(EndedResult)
    /\ ~pipeline_called
    /\ IsSome(current_interaction)
    /\ Session.status = "researching"
    /\ NonEmptyDict(Session.clarification_responses)

(***************************************************************************)
(* C7: when the end signal arrives after the driver has resumed in status  *)
(* researching and started the pipeline call, the call is not aborted:     *)
(* the driver stays in the call; when the call returns it marks the        *)
(* session completed with the report and goes on to the PDF (when the call *)
(* raises, the error leaves run); and a result run returns is a report     *)
(* result, never the "Research ended by user" one.                         *)
(***************************************************************************)
EndedDuringPipeline ==
    /\ IsSome(end_seen)
    /\ Get(end_seen) = "running"
    /\ pipeline_called

C7_ReturnsAReport ==
    (EndedDuringPipeline /\ RunReturned) =>
        \E r \in Reports, pdf \in PdfPaths : result = Some(ReportResult(r, pdf))

C7_PipelineStep ==
    (dpc = "pipeline" /\ end_workflow) =>
        \/ dpc' = "pipeline"
        \/ dpc' = "failed" /\ current_interaction' = current_interaction
        \/ /\ dpc' = "pdf"
           /\ Get(current_interaction').status = "completed"
           /\ IsSome(Get(current_interaction').report_data)
           /\ Get(current_interaction').final_result
                 = Some(Get(Get(current_interaction').report_data).markdown_report)

C7_PipelineCallIsNotAborted == []C7_ReturnsAReport /\ [][C7_PipelineStep]_vars

C7_Witness ==
    /\ EndedDuringPipeline
    /\ RunReturned
    /\ Session.status = "completed"
    /\ \E pdf \in PdfPaths : result = Some(ReportResult(Get(Session.report_data), pdf))

(***************************************************************************)
(* C8: provide_single_clarification with an answer that is empty after     *)
(* stripping is refused by its validator: the session (status, responses,  *)
(* index and every other field) is unchanged, in whatever state it is.     *)
(***************************************************************************)
BlankAnswers == {answer \in Answers : Strip(answer) = <<>>}

RefusedByValidator(op) ==
    /\ current_interaction' = current_interaction
    /\ lastEvent' = Message(op, "ValidationError")

\* a step that handles provide_single_clarification is either the refusal
\* or a step no blank answer can take
C8_BlankAnswerIsRejected ==
    [][lastEvent'.op = "provide_single_clarification"
        => \/ RefusedByValidator("provide_single_clarification")
           \/ \A idx \in 0..MaxQuestions, answer \in BlankAnswers :
                 ~ProvideSingleClarification(idx, answer)]_vars

C8_Witness ==
    /\ lastEvent = Message("provide_single_clarification", "ValidationError")
    /\ IsSome(current_interaction)
    /\ Session.status = "collecting_answers"

(***************************************************************************)
(* C9: provide_clarifications with an empty map is refused by its          *)
(* validator before any mutation: the session is unchanged.                *)
(***************************************************************************)
EmptyMaps == {responses \in BulkMaps : DOMAIN responses = {}}

C9_EmptyMapIsRejected ==
    [][lastEvent'.op = "provide_clarifications"
        => \/ RefusedByValidator("provide_clarifications")
           \/ \A responses \in EmptyMaps : ~ProvideClarifications(responses)]_vars

C9_Witness ==
    /\ lastEvent = Message("provide_clarifications", "ValidationError")
    /\ IsSome(current_interaction)
    /\ Session.status = "awaiting_clarifications"

(***************************************************************************)
(* C10: provide_single_clarification with a valid answer on a session      *)
(* whose status is neither awaiting_clarifications nor collecting_answers  *)
(* (pending, researching, completed) fails with the invalid-state error    *)
(* and leaves every field of the session unchanged.                        *)
(***************************************************************************)
NotCollecting ==
    /\ IsSome(current_interaction)
    /\ Session.status \in {"pending", "researching", "completed"}

RefusedForState ==
    /\ current_interaction' = current_interaction
    /\ lastEvent' = Message("provide_single_clarification", "InvalidState")

C10_AnswerInWrongStateIsRejected ==
    [][(NotCollecting /\ lastEvent'.op = "provide_single_clarification")
        => \/ RefusedForState
           \/ \A idx \in 0..MaxQuestions, answer \in Answers \ BlankAnswers :
                 ~ProvideSingleClarification(idx, answer)]_vars

C10_Witness ==
    /\ lastEvent = Message("provide_single_clarification", "InvalidState")
    /\ IsSome(current_interaction)
    /\ Session.status = "completed"

(***************************************************************************)
(* C11: provide_clarifications is accepted only in status                  *)
(* awaiting_clarifications; with a non-empty map in any other status (in   *)
(* particular collecting_answers, after a first single answer) it fails    *)
(* with the invalid-state error and leaves the session (responses, index,  *)
(* status) unchanged.                                                      *)
(***************************************************************************)
NonEmptyMaps == BulkMaps \ EmptyMaps

NotAwaiting ==
    /\ IsSome(current_interaction)
    /\ Session.status # "awaiting_clarifications"

BulkAccepted ==
    /\ lastEvent' = Message("provide_clarifications", "none")
    /\ \E responses \in BulkMaps : ProvideClarifications(responses)

BulkRefusedForState ==
    /\ current_interaction' = current_interaction
    /\ lastEvent' = Message("provide_clarifications", "InvalidState")

C11_BulkOnlyWhenAwaiting ==
    [][lastEvent'.op = "provide_clarifications"
        => /\ BulkAccepted
                => (IsSome(current_interaction)
                      /\ Session.status = "awaiting_clarifications")
           /\ NotAwaiting
                => \/ BulkRefusedForState
                   \/ \A responses \in NonEmptyMaps :
                         ~ProvideClarifications(responses)]_vars

C11_Witness ==
    /\ lastEvent = Message("provide_clarifications", "InvalidState")
    /\ IsSome(current_interaction)
    /\ Session.status = "collecting_answers"
    /\ Session.current_question_index = 1
    /\ NonEmptyDict(Session.clarification_responses)

(***************************************************************************)
(* C12: provide_clarifications with a non-empty map in status              *)
(* awaiting_clarifications ends with current_question_index equal to the   *)
(* number of questions and status researching, also when the map has       *)
(* fewer entries than there are questions.                                 *)
(***************************************************************************)
Awaiting ==
    /\ IsSome(current_interaction)
    /\ Session.status = "awaiting_clarifications"

BulkForcesResearching ==
    /\ lastEvent' = Message("provide_clarifications", "none")
    /\ Get(current_interaction').status = "researching"
    /\ Get(current_interaction').current_question_index = NumQuestions(Session)
    /\ Get(current_interaction').clarification_questions = Session.clarification_questions

C12_BulkForcesIndexAndResearching ==
    [][(Awaiting /\ lastEvent'.op = "provide_clarifications")
        => \/ BulkForcesResearching
           \/ \A responses \in NonEmptyMaps : ~ProvideClarifications(responses)]_vars

C12_Witness ==
    /\ lastEvent = Message("provide_clarifications", "none")
    /\ Session.status = "researching"
    /\ Session.current_question_index = NumQuestions(Session)
    /\ Cardinality(DOMAIN Session.clarification_responses) < NumQuestions(Session)

(***************************************************************************)
(* C13: current_question_index never decreases; an accepted                *)
(* provide_single_clarification raises it by exactly 1, an accepted        *)
(* provide_clarifications sets it to the number of questions, no other     *)
(* operation changes it; and an accepted answer leaves the status          *)
(* researching exactly when the index has reached the number of questions. *)
(***************************************************************************)
SingleAccepted ==
    /\ lastEvent' = Message("provide_single_clarification", "none")
    /\ \E idx \in 0..MaxQuestions, answer \in Answers \ BlankAnswers :
          ProvideSingleClarification(idx, answer)

IndexMovesForward ==
    (IsSome(current_interaction) /\ IsSome(current_interaction'))
    => LET old == Get(current_interaction)
           new == Get(current_interaction')
       IN  /\ new.current_question_index >= old.current_question_index
           /\ new.current_question_index # old.current_question_index
                => \/ SingleAccepted
                      /\ new.current_question_index = old.current_question_index + 1
                   \/ BulkAccepted
                      /\ new.current_question_index = NumQuestions(old)
           /\ (SingleAccepted \/ BulkAccepted)
                => (new.status = "researching"
                      <=> new.current_question_index = NumQuestions(new))

C13_IndexOnlyMovesForward == [][IndexMovesForward]_vars

(***************************************************************************)
(* C14: an accepted provide_single_clarification(question_index, answer)   *)
(* records the answer under the key question_<question_index> built from   *)
(* the index the caller supplied, for every index that names one of the    *)
(* session's questions.                                                    *)
(***************************************************************************)
RecordedUnderCallersIndex ==
    \A idx \in 0..MaxQuestions, answer \in Answers \ BlankAnswers :
        (idx < NumQuestions(Session) /\ ProvideSingleClarification(idx, answer))
        => LET recorded == Get(current_interaction').clarification_responses
           IN  /\ QuestionKey(idx) \in DOMAIN recorded
               /\ recorded[QuestionKey(idx)] = answer

C14_AnswerIsRecordedUnderCallersIndex ==
    [][lastEvent' = Message("provide_single_clarification", "none")
        => RecordedUnderCallersIndex]_vars

(***************************************************************************)
(* C15: in every state of a session, 0 <= current_question_index <=        *)
(* len(clarification_questions), an absent list counting as length 0.      *)
(***************************************************************************)
C15_IndexWithinQuestions ==
    IsSome(current_interaction)
    => /\ 0 <= Session.current_question_index
       /\ Session.current_question_index <= NumQuestions(Session)

(***************************************************************************)
(* C16: in every state clarification_responses has no more entries than    *)
(* clarification_questions; stated for the sessions that have a question   *)
(* to answer.                                                              *)
(***************************************************************************)
C16_NoMoreResponsesThanQuestions ==
    (IsSome(current_interaction) /\ NumQuestions(Session) >= 1)
    => Cardinality(DOMAIN Session.clarification_responses) <= NumQuestions(Session)

(***************************************************************************)
(* C17: the status get_status shows never moves backward in the order      *)
(* pending < awaiting_clarifications < collecting_answers < researching <  *)
(* completed, under any sequence of operations, a repeated start_research  *)
(* included.                                                               *)
(***************************************************************************)
StatusRank(st) ==
    CASE st = "pending" -> 0
      [] st = "awaiting_clarifications" -> 1
      [] st = "collecting_answers" -> 2
      [] st = "researching" -> 3
      [] st = "completed" -> 4

C17_StatusNeverMovesBackward ==
    [][(IsSome(current_interaction) /\ IsSome(current_interaction'))
        => StatusRank(Get(current_interaction').status)
              >= StatusRank(Get(current_interaction).status)]_vars

(***************************************************************************)
(* C18: once set, the session's original_query and clarification_questions *)
(* never change for the rest of the workflow instance.                     *)
(***************************************************************************)
C18_QueryAndQuestionsNeverChange ==
    [][IsSome(current_interaction)
        => /\ IsSome(current_interaction')
           /\ Get(current_interaction').original_query = Session.original_query
           /\ IsSome(Session.clarification_questions)
                => Get(current_interaction').clarification_questions
                      = Session.clarification_questions]_vars

(***************************************************************************)
(* C19: final_result and report_data are written only in the step that     *)
(* sets status to completed, so either one present implies status          *)
(* completed, and they are written at most once per session (a step of     *)
(* start_research begins a new session).                                   *)
(***************************************************************************)
ResultsImplyCompleted ==
    (IsSome(current_interaction)
        /\ (IsSome(Session.report_data) \/ IsSome(Session.final_result)))
    => Session.status = "completed"

ResultsWrittenOnce ==
    (/\ IsSome(current_interaction)
     /\ IsSome(current_interaction')
     /\ ~\E query \in Queries : StartResearch(query))
    => LET old == Get(current_interaction)
           new == Get(current_interaction')
       IN  /\ (new.report_data # old.report_data \/ new.final_result # old.final_result)
                => (new.status = "completed" /\ old.status # "completed")
           /\ IsSome(old.report_data) => new.report_data = old.report_data
           /\ IsSome(old.final_result) => new.final_result = old.final_result

C19_ResultsWrittenOnceWithCompleted ==
    []ResultsImplyCompleted /\ [][ResultsWrittenOnce]_vars

(***************************************************************************)
(* C20: when the triage call of start_research fails, the error reaches    *)
(* the caller and no session is left behind: after the failure of the      *)
(* first start_research of the instance the session is absent, as it was   *)
(* before, never a session in status pending.                              *)
(***************************************************************************)
FirstStartFailed ==
    /\ started = "once"
    /\ lastEvent = Resolution("raised")

C20_FailedStartLeavesNoSession ==
    FirstStartFailed => ~IsSome(current_interaction)

(***************************************************************************)
(* C21: a triage run that ends with a malformed output makes start_research*)
(* fail: run_with_clarifications_start never returns a result for such an  *)
(* output, so no step of the workflow is the normal return of the triage   *)
(* call with the result computed from a malformed output.                  *)
(***************************************************************************)
MalformedOutputs == {out \in TriageOutputs : out.kind = "malformed"}

ProceedsFromMalformedOutput ==
    \E out \in MalformedOutputs, r \in Reports :
        TriageReturn(RunWithClarificationsStart(out, r))

C21_MalformedTriageFailsStart ==
    [][~ProceedsFromMalformedOutput]_vars

(***************************************************************************)
(* C22: when the driver's pipeline call fails, the session is not marked   *)
(* completed and the failure leaves run: the pipeline call ends either     *)
(* with the report written to the session and status completed, or with    *)
(* run failed, the session untouched and no result.  A failed run has no   *)
(* result and nothing changes afterwards; a run that called the pipeline   *)
(* and returned has returned the session's report, never the placeholder   *)
(* built from absent report data.  With a single start_research the        *)
(* session of a run that failed in the pipeline call is still researching. *)
(***************************************************************************)
PipelineCallEnds == dpc = "pipeline" /\ dpc' # "pipeline"

EndsWithReport ==
    /\ dpc' = "pdf"
    /\ IsSome(current_interaction')
    /\ Get(current_interaction').status = "completed"
    /\ IsSome(Get(current_interaction').report_data)
    /\ result' = None

EndsWithFailure ==
    /\ dpc' = "failed"
    /\ current_interaction' = current_interaction
    /\ result' = None

FailedRunHasNoResult ==
    dpc = "failed" => result = None

ReturnedAfterPipelineHasReport ==
    (RunReturned /\ pipeline_called) =>
        \E r \in Reports, pdf \in PdfPaths : result = Some(ReportResult(r, pdf))

FailedInPipelineStaysResearching ==
    (dpc = "failed" /\ pipeline_called /\ SingleStart) =>
        /\ Session.status = "researching"
        /\ Session.report_data = None
        /\ Session.final_result = None

C22_PipelineFailureIsSurfaced ==
    /\ [](FailedRunHasNoResult /\ ReturnedAfterPipelineHasReport
             /\ FailedInPipelineStaysResearching)
    /\ [][PipelineCallEnds => (EndsWithReport \/ EndsWithFailure)]_vars
    /\ [][dpc = "failed" => UNCHANGED vars]_vars

C22_Witness ==
    /\ dpc = "failed"
    /\ pipeline_called
    /\ SingleStart
    /\ Session.status = "researching"
    /\ NonEmptyDict(Session.clarification_responses)
    /\ result = None

(***************************************************************************)
(* C23: the PDF is rendered only for a session that has a report, and a    *)
(* PDF call that fails (it returns no path) is not fatal: the call is      *)
(* started only when the session holds report_data, and when it ends       *)
(* without a path run returns the summary, markdown and follow-up          *)
(* questions of a report with pdf_file_path absent.                        *)
(***************************************************************************)
PdfCallStarts == dpc # "pdf" /\ dpc' = "pdf"

PdfCallFails == dpc = "pdf" /\ PdfReturn(None)

ReturnsReportWithoutPdf ==
    /\ dpc' = "done"
    /\ \E r \in Reports : result' = Some(ReportResult(r, None))

C23_PdfFailureIsNotFatal ==
    /\ [][PdfCallStarts => (IsSome(current_interaction')
                             /\ IsSome(Get(current_interaction').report_data))]_vars
    /\ [][PdfCallFails => ReturnsReportWithoutPdf]_vars

(***************************************************************************)
(* C24: the driver sees a status only once the operation that wrote it has *)
(* returned to its caller: when run resumes from wait_condition because of *)
(* the session's status (the ended flag is not set), no start_research     *)
(* that wrote that status is still suspended in its sleep.                 *)
(***************************************************************************)
ResumesOnStatus == dpc = "wait" /\ dpc' # "wait" /\ ~end_workflow

PipelineCallInFlight == dpc = "pipeline" /\ dpc' = "pipeline"

TriageCallInFlight == BagIn(TriageTask, tasks) /\ BagIn(TriageTask, tasks')

C25_SessionFrozenDuringCalls ==
    [][(PipelineCallInFlight \/ TriageCallInFlight)
           => current_interaction' = current_interaction]_vars

(***************************************************************************)
(* C26: get_status changes nothing of the workflow's state; it returns     *)
(* absent as long as no start_research was delivered and a session from    *)
(* then on; and a call returns what the call before it returned when no    *)
(* other operation ran in between (the state it answers from is the state  *)
(* it leaves).                                                             *)
(***************************************************************************)
WorkflowState ==
    <<initial_query, use_clarifications, current_interaction, end_workflow,
      dpc, direct_report, result, tasks, started, pipeline_called, end_seen>>

AbsentBeforeFirstStart ==
    /\ started = "never" => GetStatusReturns = None
    /\ started # "never" => IsSome(GetStatusReturns)

C26_GetStatusIsPureRead ==
    /\ []AbsentBeforeFirstStart
    /\ [][GetStatus => (UNCHANGED WorkflowState
                          /\ GetStatusReturns' = GetStatusReturns)]_vars

C26_Witness ==
    /\ lastEvent = Message("get_status", "none")
    /\ IsSome(GetStatusReturns)
    /\ Get(GetStatusReturns).status = "collecting_answers"
    /\ NonEmptyDict(Get(GetStatusReturns).clarification_responses)

(***************************************************************************)
(* C27: end_workflow_signal sets the ended flag and changes nothing else:  *)
(* the session (status, questions, responses, index, results), the result  *)
(* of run, its position and the start tasks are as before; and the flag is *)
(* one-way: no step of any operation resets it once it is set.             *)
(***************************************************************************)
EndChangesOnlyTheFlag ==
    EndWorkflowSignal =>
        /\ end_workflow'
        /\ UNCHANGED <<initial_query, use_clarifications, current_interaction,
                       dpc, direct_report, result, tasks>>

FlagIsOneWay == end_workflow => end_workflow'

C27_EndSignalSetsOnlyTheFlag ==
    [][EndChangesOnlyTheFlag]_vars /\ [][FlagIsOneWay]_vars

C27_Witness ==
    /\ lastEvent = Message("end_workflow_signal", "none")
    /\ end_workflow
    /\ dpc = "pipeline"
    /\ IsSome(current_interaction)
    /\ Session.status = "researching"
    /\ NonEmptyDict(Session.clarification_responses)

(***************************************************************************)
(* C28: the outcomes of the driver can be told apart.  A run that returned *)
(* the "Research ended by user" result was ended; a run that was ended     *)
(* never returned the "No research completed" result, and a run that was   *)
(* ended while the driver was still waiting returned the ended result; a   *)
(* run that returned "No research completed" was not ended and its session *)
(* holds no report, and an interactive run that was not ended and whose    *)
(* session holds no report returned "No research completed"; a failed run  *)
(* has no result at all.                                                   *)
(***************************************************************************)
Placeholder == "No research completed"

ReturnedPlaceholder == RunReturned /\ Get(result).short_summary = Placeholder

EndedWhileWaiting == IsSome(end_seen) /\ Get(end_seen) # "running"

EndedResultOnlyWhenEnded ==
    (RunReturned /\ result = Some(EndedResult)) => end_workflow

EndedNeverReturnsPlaceholder ==
    /\ (RunReturned /\ end_workflow) => ~ReturnedPlaceholder
    /\ (RunReturned /\ EndedWhileWaiting) => result = Some(EndedResult)

PlaceholderOnlyWithoutReport ==
    ReturnedPlaceholder =>
        /\ ~end_workflow
        /\ IsSome(current_interaction)
        /\ ~IsSome(Session.report_data)
        /\ result = Some(NoResearchResult(current_interaction))

NoReportReturnsPlaceholder ==
    (InteractiveRun /\ ~end_workflow /\ ~IsSome(Session.report_data))
        => ReturnedPlaceholder

C28_OutcomesAreDistinguishable ==
    /\ EndedResultOnlyWhenEnded
    /\ EndedNeverReturnsPlaceholder
    /\ PlaceholderOnlyWithoutReport
    /\ NoReportReturnsPlaceholder
    /\ (dpc = "failed" => result = None)

C28_Witness ==
    /\ ReturnedPlaceholder
    /\ ~end_workflow
    /\ Session.status = "researching"
    /\ ~IsSome(Session.report_data)
    /\ result = Some(NoResearchResult(current_interaction))

(***************************************************************************)
(* C29: the query the pipeline researches is the header with the original  *)
(* query, an empty line, the line "Additional context from                 *)
(* clarifications:" and then exactly one line "- question: answer" per     *)
(* question, in the order of the questions, the answer being the response  *)
(* stored under question_i, or "No specific preference" when there is      *)
(* none; responses under keys that match no question change nothing.       *)
(* Checked on the arguments of every pipeline call the driver makes.       *)
(***************************************************************************)
ExpectedAnswer(responses, i) ==
    IF \E k \in DOMAIN responses : k = QuestionKey(i)
        THEN Str(responses[QuestionKey(i)])
        ELSE "No specific preference"

ExpectedLines(questions, responses) ==
    [n \in 1..Len(questions) |->
        "- " \o questions[n] \o ": " \o ExpectedAnswer(responses, n - 1)]

RECURSIVE JoinLines(_)
JoinLines(lines) ==
    IF lines = <<>> THEN "" ELSE Head(lines) \o "\n" \o JoinLines(Tail(lines))

ExpectedQuery(original_query, questions, responses) ==
    JoinLines(<<"Original query: " \o original_query, "",
                "Additional context from clarifications:">>
                  \o ExpectedLines(questions, responses))

\* the responses under the keys of the questions
MatchingResponses(questions, responses) ==
    [k \in {QuestionKey(n - 1) : n \in 1..Len(questions)} \cap DOMAIN responses
        |-> responses[k]]

DriverCallsPipeline == dpc = "wait" /\ dpc' = "pipeline"

EnrichedAsSpecified ==
    /\ PipelineQuery = ExpectedQuery(Session.original_query, PipelineQuestions,
                                     Session.clarification_responses)
    /\ PipelineQuery = EnrichQuery(Session.original_query, PipelineQuestions,
                                   MatchingResponses(PipelineQuestions,
                                                     Session.clarification_responses))

C29_EnrichedQueryHasOneLinePerQuestion ==
    [][DriverCallsPipeline => EnrichedAsSpecified]_vars

C29_Witness ==
    /\ dpc = "pipeline"
    /\ SingleStart
    /\ Len(PipelineQuestions) = 2
    /\ DOMAIN Session.clarification_responses = BulkKeys
    /\ PipelineQuery = "Original query: " \o Session.original_query
                           \o "\n\nAdditional context from clarifications:\n"
                           \o "- Q0: x\n- Q1: No specific preference\n"

(***************************************************************************)
(* C30: when the driver resumes from its wait and finds the session in     *)
(* status researching (and the ended flag not set), it calls the research  *)
(* pipeline before it produces a result: the step that leaves the wait     *)
(* enters the pipeline call, and no run has returned with the session      *)
(* still researching and no pipeline call made.                            *)
(***************************************************************************)
ResumesResearching ==
    /\ ResumesOnStatus
    /\ IsSome(current_interaction)
    /\ Session.status = "researching"

ReturnedWhileResearching ==
    /\ InteractiveRun
    /\ ~end_workflow
    /\ IsSome(current_interaction)
    /\ Session.status = "researching"

C30_ResearchingDriverCallsPipeline ==
    /\ [][ResumesResearching => dpc' = "pipeline"]_vars
    /\ [](ReturnedWhileResearching => pipeline_called)

(***************************************************************************)
(* C31: a session in status awaiting_clarifications has at least one       *)
(* clarification question, so there is a question whose answer moves the   *)
(* session forward.                                                        *)
(***************************************************************************)
C31_AwaitingSessionHasQuestions ==
    (IsSome(current_interaction) /\ Session.status = "awaiting_clarifications")
        => /\ IsSome(Session.clarification_questions)
           /\ NumQuestions(Session) >= 1

(***************************************************************************)
(* C32: provide_single_clarification and provide_clarifications delivered  *)
(* while there is no session fail and change nothing: the session stays    *)
(* absent and the driver stays where it is.  As first stated, the failure  *)
(* is always the "No active research interaction" error.                   *)
(***************************************************************************)
NoSession == ~IsSome(current_interaction)

SingleWithoutSession(answers) ==
    /\ NoSession
    /\ lastEvent'.op = "provide_single_clarification"
    /\ \E idx \in 0..MaxQuestions, answer \in answers :
          ProvideSingleClarification(idx, answer)

BulkWithoutSession(maps) ==
    /\ NoSession
    /\ lastEvent'.op = "provide_clarifications"
    /\ \E responses \in maps : ProvideClarifications(responses)

FailsWith(error) ==
    /\ lastEvent'.error = error
    /\ UNCHANGED WorkflowState

C32_NoSessionAlwaysNoActiveInteraction ==
    [][(SingleWithoutSession(Answers) \/ BulkWithoutSession(BulkMaps))
          => FailsWith("NoActiveInteraction")]_vars

(***************************************************************************)
(* C32, as the code has it: the validator of an update runs ahead of its   *)
(* handler.  Without a session, an answer that is blank after stripping    *)
(* and an empty map are refused by the validator; every other answer and   *)
(* map fails with "No active research interaction".  In both cases nothing *)
(* of the workflow's state changes.                                        *)
(***************************************************************************)
C32_NoSessionCallFailsUnchanged ==
    /\ [][SingleWithoutSession(Answers \ BlankAnswers)
             => FailsWith("NoActiveInteraction")]_vars
    /\ [][SingleWithoutSession(BlankAnswers) => FailsWith("ValidationError")]_vars
    /\ [][BulkWithoutSession(NonEmptyMaps) => FailsWith("NoActiveInteraction")]_vars
    /\ [][BulkWithoutSession(EmptyMaps) => FailsWith("ValidationError")]_vars

C32_Witness ==
    /\ lastEvent = Message("provide_single_clarification", "NoActiveInteraction")
    /\ NoSession
    /\ dpc = "wait"
    /\ result = None

(***************************************************************************)
(* C33: started with a non-empty initial_query and use_clarifications      *)
(* false, run calls the direct pipeline and never enters the wait; it      *)
(* comes to its end without any message, and what it returns is the report *)
(* of the direct pipeline whatever updates and signals were delivered      *)
(* meanwhile.  With every other pair of arguments run enters the wait,     *)
(* makes no use of initial_query (no session, no pipeline call and no      *)
(* report before a start_research) and leaves the wait only when the       *)
(* ended flag is set or a session is researching or completed.             *)
(***************************************************************************)
DirectArguments ==
    /\ initial_query \notin {None, Some("")}
    /\ use_clarifications = FALSE

InDirectPath == dpc \in {"direct", "direct_pdf"}

RunTakesItsMode ==
    (dpc = "init" /\ dpc' # "init")
        => dpc' = IF DirectArguments THEN "direct" ELSE "wait"

DirectPathAvoidsWait ==
    InDirectPath =>
        /\ dpc' \in {"direct", "direct_pdf", "done", "failed"}
        /\ dpc' = dpc => (direct_report' = direct_report /\ result' = result)
        /\ dpc' = "done" =>
              \E pdf \in PdfPaths : result' = Some(ReportResult(Get(direct_report), pdf))

WaitEndsOnlyOnCondition ==
    (dpc = "wait" /\ dpc' # "wait") => WaitCondition

InitialQueryIgnored ==
    /\ dpc \in {"wait", "pipeline", "pdf"} => direct_report = None
    /\ (dpc = "wait" /\ started = "never")
          => (current_interaction = None /\ result = None /\ ~pipeline_called)
    /\ (dpc = "wait" /\ started = "never" /\ ~end_workflow) => ~WaitCondition

DirectResultIsTheDirectReport ==
    (RunReturned /\ IsSome(direct_report))
        => \E pdf \in PdfPaths : result = Some(ReportResult(Get(direct_report), pdf))

C33_DirectModeNeedsNoMessage ==
    /\ [](InitialQueryIgnored /\ DirectResultIsTheDirectReport)
    /\ [][RunTakesItsMode /\ DirectPathAvoidsWait /\ WaitEndsOnlyOnCondition]_vars
    /\ (dpc = "init" /\ DirectArguments) ~> (dpc \in {"done", "failed"})

C33_Witness ==
    /\ RunReturned
    /\ IsSome(direct_report)
    /\ end_workflow
    /\ IsSome(current_interaction)
    /\ Session.status = "awaiting_clarifications"
    /\ \E pdf \in PdfPaths : result = Some(ReportResult(Get(direct_report), pdf))

(***************************************************************************)
(* C34: ResearchWorkflow.run calls only methods SimpleResearchManager      *)
(* defines, so once planning, searching and writing have succeeded the run *)
(* does not fail any more: with the report written, the run has not        *)
(* raised.                                                                 *)
(***************************************************************************)
SimpleRunWroteReport == manager = "simple" /\ IsSome(report_data)

C34_SimpleRunCannotFailAfterReport ==
    SimpleRunWroteReport => mpc # "raised"

(***************************************************************************)
(* C35: in _perform_searches a search that fails does not fail the         *)
(* pipeline: while the searches run the pipeline does not raise; the list  *)
(* results holds at most one entry per planned search, each the output of  *)
(* a search that returned, so never more entries than the plan has items;  *)
(* and the writer runs only when every search task has been awaited, the   *)
(* list then holding the output of exactly the searches that returned      *)
(* (possibly none).                                                        *)
(***************************************************************************)
SearchesReturned == {i \in DOMAIN search_tasks : search_tasks[i] = "returned"}

SearchFailureIsNotFatal == mpc = "search" => mpc' \in {"search", "write"}

AtMostOneResultPerSearch ==
    /\ Len(results) <= Len(search_tasks)
    /\ \A k \in DOMAIN results :
          \E i \in SearchesReturned : results[k] = SearchOutput(i)
    /\ \A k, l \in DOMAIN results : results[k] = results[l] => k = l

WriterReached == mpc \in {"write", "image", "pdf", "returned"} \/ IsSome(report_data)

AllSearchesAwaitedBeforeWriter ==
    WriterReached =>
        /\ num_completed = Len(search_tasks)
        /\ \A i \in DOMAIN search_tasks : search_tasks[i] # "running"
        /\ {results[k] : k \in DOMAIN results}
              = {SearchOutput(i) : i \in SearchesReturned}

C35_FailedSearchesAreSkipped ==
    /\ [](AtMostOneResultPerSearch /\ AllSearchesAwaitedBeforeWriter)
    /\ [][SearchFailureIsNotFatal]_vars

C35_Witness ==
    /\ mpc = "write"
    /\ Len(search_tasks) = 2
    /\ search_tasks[1] = "none"
    /\ search_tasks[2] = "returned"
    /\ results = <<SearchOutput(2)>>

(***************************************************************************)
(* C36: the image task runs beside plan, search and write and never fails  *)
(* the research.  A step of the image task leaves the pipeline where it    *)
(* is; when the description agent or the image activity is unsuccessful    *)
(* or raises, the task ends with no path and no description; the pipeline  *)
(* returns only when the image task is done, and it then returns the       *)
(* written report and has stored what the task ended with.                 *)
(***************************************************************************)
ImageTaskSteps == image_task' # image_task

ImageCallFails ==
    \/ DescribeEnds("unsuccessful")
    \/ DescribeEnds("raised")
    \/ GenerateEnds("unsuccessful")
    \/ GenerateEnds("raised")

ImageFailureIsNotFatal ==
    /\ ImageTaskSteps => (mpc' = mpc /\ report_data' = report_data)
    /\ ImageCallFails => image_task' = ImageTask("done", NoImage)

ReturnsAfterImageTask ==
    (mpc # "returned" /\ mpc' = "returned") => image_task.pc = "done"

ReturnedWithReport ==
    mpc = "returned" =>
        /\ manager = "interactive"
        /\ IsSome(report_data)
        /\ image_task.pc = "done"
        /\ research_image = image_task.value
        /\ research_image \in {NoImage, Image}

C36_ImageFailureNeverFailsResearch ==
    /\ []ReturnedWithReport
    /\ [][ImageFailureIsNotFatal /\ ReturnsAfterImageTask]_vars

C36_Witness ==
    /\ mpc = "returned"
    /\ IsSome(report_data)
    /\ image_task = ImageTask("done", NoImage)
    /\ research_image = NoImage
    /\ Len(results) = MaxSearches

====
